---- MODULE Spec2Model ----
(***************************************************************************)
(* A model of the code assistant: OllamaCodeGenerator (app/generator.py),  *)
(* HistoryHandler (app/history.py) and the /process-instruction handler of *)
(* CodeAssistantApp (app/code_assistant.py), each alone and in concurrent  *)
(* request threads.                                                        *)
(*                                                                         *)
(* Python values are modelled as follows.  A str that is only compared or  *)
(* passed on (model names, instructions, user code) is a TLA+ string.  A   *)
(* str that the code takes apart (the response text) is a sequence of      *)
(* characters, where the character "P" stands for the six letters of       *)
(* "python" (a substring with no backquote, no line break and no           *)
(* self-overlap, so treating it as one symbol changes no count, find or    *)
(* split) and Tick is the backquote character.  A prompt is the sequence    *)
(* of the pieces the f-string joins.                                       *)
(* An exception is the name of its class: "ConnectionError", or            *)
(* "Exception" for any other subclass of Exception; "none" means the call  *)
(* returned.                                                               *)
(***************************************************************************)
EXTENDS Integers, Sequences, FiniteSets, TLC

VARIABLES
    \* ---- the Ollama service, as seen through ollama.Client
    svc,                  \* "up", or the exception client.list() raises
    listed,               \* the models client.list() reports
    pullable,             \* the models client.pull() can fetch
    \* ---- OllamaCodeGenerator
    gpc,                  \* "new" before __init__ has run, "ready" after
    ollama_model,         \* self._ollama_model
    is_model_initialized, \* self._is_model_initialized
    custom_prompt_fn,     \* self._custom_prompt_fn: "None" or "custom"
    last,                 \* observation of the last generator call
    everReady,            \* an _init_model call has returned True before
    \* ---- HistoryHandler
    hpc,                  \* "new" before __init__ has run, "ready" after
    history,              \* self._history, oldest first
    history_max_length,   \* self._history_max_length
    inserted,             \* every entry passed to add_new_entry, in order
    returned,             \* the list the last get_history call returned
    \* ---- a caller of HistoryHandler
    requested,            \* the max_history_length the constructor was given
    returned_object,      \* "list": returned is a list of its own; "deque": it is
                          \* self._history itself; "none": nothing returned yet
    snapshot,             \* the store's contents when get_history returned
    edits,                \* items the caller has since removed from the list it got
    \* ---- CodeAssistantApp (app/code_assistant.py)
    response,             \* what the last /process-instruction request was answered
    nRequests,            \* /process-instruction requests handled so far
    nSuccess,             \* how many of them were answered with status 200
    \* ---- a call of _extract_code on a text of its own
    xpc,                  \* "none": no text; "given": text received; "done": extracted;
                          \* "again": the result extracted once more
    ext_response_text,    \* the argument of _extract_code
    ext_output_code,      \* what _extract_code returned
    ext_output_again,     \* what _extract_code returned for ext_output_code
    \* ---- request threads of the server, sharing generator and history
    threads,              \* of each thread: where it is in generate_code and what it holds
    hthreads,             \* of each thread: where it is in its HistoryHandler call
    invoked,              \* add_new_entry calls made so far
    applied,              \* the add_new_entry calls whose append has run, in that order
    completed             \* the add_new_entry calls that have returned

genVars  == <<gpc, ollama_model, is_model_initialized, custom_prompt_fn, last, everReady>>
envVars  == <<svc, listed, pullable>>
appVars  == <<response, nRequests, nSuccess>>
extVars  == <<xpc, ext_response_text, ext_output_code, ext_output_again>>
threadVars == <<threads, hthreads, invoked, applied, completed>>
callerVars == <<requested, returned_object, snapshot, edits>>
histVars == <<hpc, history, history_max_length, inserted, returned>>
vars     == <<svc, listed, pullable, gpc, ollama_model, is_model_initialized,
              custom_prompt_fn, last, everReady,
              hpc, history, history_max_length, inserted, returned,
              requested, returned_object, snapshot, edits,
              response, nRequests, nSuccess,
              xpc, ext_response_text, ext_output_code, ext_output_again,
              threads, hthreads, invoked, applied, completed>>
otherVars == <<extVars, threadVars>>

(***************************************************************************)
(* Python constants and input domains                                      *)
(***************************************************************************)
DEFAULT_MODEL == "llama3.2:1b"
Tick == "tick"
PYTHON_START_TOKEN == <<Tick, Tick, Tick, "P", "\n">>
CODE_TOKEN == <<Tick, Tick, Tick>>
NO_CODE == "(no code provided)"
PyNone == "<None>"

Models == {DEFAULT_MODEL, "ghost-model"}
ModelArgs == Models \cup {PyNone, ""}
Instructions == {"add a docstring"}
UserCodes == {PyNone, "", "x = 1"}
Exceptions == {"ConnectionError", "Exception"}
Responses ==
    { <<Tick, Tick, Tick, "P", "\n", "x", "\n", Tick, Tick, Tick>>,
      <<"x", Tick, Tick, Tick, "\n", "x", Tick, Tick, Tick>>,
      <<"x", Tick, Tick, Tick, "x">> }

\* the one element of a singleton set; { F(x) : x \in {v} } names the value v once
Only(S) == CHOOSE x \in S : TRUE

\* Python truthiness of an Optional[str]
Truthy(s) == s # PyNone /\ s # ""

(***************************************************************************)
(* str helpers, computed as CPython computes them (non-overlapping,        *)
(* left to right)                                                          *)
(***************************************************************************)
\* s[i:] with a 1-based i
From(s, i) == SubSeq(s, i, Len(s))

\* tok occurs in s at 1-based position i
At(s, tok, i) == i + Len(tok) - 1 <= Len(s) /\ SubSeq(s, i, i + Len(tok) - 1) = tok

\* s.find(tok), 1-based; 0 when tok does not occur
Find(s, tok) ==
    IF \E i \in 1..Len(s) : At(s, tok, i)
    THEN CHOOSE i \in 1..Len(s) : At(s, tok, i) /\ \A j \in 1..(i - 1) : ~At(s, tok, j)
    ELSE 0

\* tok in s
Contains(s, tok) == Find(s, tok) # 0

\* s.count(tok)
RECURSIVE StrCount(_, _)
StrCount(s, tok) ==
    LET i == Find(s, tok)
    IN  IF i = 0 THEN 0 ELSE 1 + StrCount(From(s, i + Len(tok)), tok)

\* s.split(tok)
RECURSIVE Split(_, _)
Split(s, tok) ==
    LET i == Find(s, tok)
    IN  IF i = 0 THEN <<s>>
        ELSE <<SubSeq(s, 1, i - 1)>> \o Split(From(s, i + Len(tok)), tok)

\* s.startswith("\n")
StartsWithNewline(s) == Len(s) >= 1 /\ s[1] = "\n"

(***************************************************************************)
(* ollama.Client, the external collaborator                                *)
(***************************************************************************)
\* one call made on the client, as the generator issued it
ListCall == [fn |-> "list", model |-> "", prompt |-> <<>>, stream |-> FALSE]
PullCall(m) == [fn |-> "pull", model |-> m, prompt |-> <<>>, stream |-> FALSE]
GenerateCall(m, p, st) == [fn |-> "generate", model |-> m, prompt |-> p, stream |-> st]

\* the calls of kind fn in a call sequence
CallsOf(calls, fn) == SelectSeq(calls, LAMBDA c : c.fn = fn)
NCalls(calls, fn) == Len(CallsOf(calls, fn))

\* self._client.list(): the listed models, or the exception the service raises
get_available_models(e) ==
    IF e.svc = "up"
    THEN [exc |-> "none", ret |-> e.listed, calls |-> <<ListCall>>]
    ELSE [exc |-> e.svc, ret |-> {}, calls |-> <<ListCall>>]

\* get_available_model_names: the names of the listed models; no try around the list
get_available_model_names(e) ==
    LET available_models == get_available_models(e)
    IN  [exc |-> available_models.exc,
         ret |-> {m \in available_models.ret : TRUE},
         calls |-> available_models.calls]

\* self._client.pull(name): succeeds iff the service is up and the repository has
\* the model; a pulled model is listed from then on.  Any failure is an Exception.
client_pull(name, e) ==
    LET ok == e.svc = "up" /\ name \in e.pullable
    IN  [exc |-> IF ok THEN "none" ELSE "Exception",
         listed |-> IF ok THEN e.listed \cup {name} ELSE e.listed]

(***************************************************************************)
(* OllamaCodeGenerator: each method as a function from the state it reads  *)
(* to its outcome [exc, ret, the state it leaves, the client calls made]   *)
(***************************************************************************)
\* faulty variant: only ConnectionError is caught, any other error escapes
is_service_available_conn_only(e) == Only({
    IF r.exc = "ConnectionError" THEN [exc |-> "none", ret |-> FALSE, calls |-> r.calls]
    ELSE IF r.exc # "none" THEN [exc |-> r.exc, ret |-> FALSE, calls |-> r.calls]
    ELSE [exc |-> "none", ret |-> TRUE, calls |-> r.calls]
    : r \in {get_available_models(e)} })

is_service_available(e) == Only({
    IF r.exc = "ConnectionError" THEN [exc |-> "none", ret |-> FALSE, calls |-> r.calls]
    ELSE IF r.exc # "none" THEN [exc |-> "none", ret |-> FALSE, calls |-> r.calls]
    ELSE [exc |-> "none", ret |-> TRUE, calls |-> r.calls]
    : r \in {get_available_models(e)} })

\* faulty variant: the model is pulled without looking at the list
is_model_available_always_pull(model_name, e) == Only({
    IF names.exc # "none"
    THEN [exc |-> names.exc, ret |-> FALSE, listed |-> e.listed, calls |-> names.calls]
    ELSE Only({ [exc |-> "none", ret |-> (p.exc = "none"), listed |-> p.listed,
                 calls |-> names.calls \o <<PullCall(model_name)>>]
                : p \in {client_pull(model_name, e)} })
    : names \in {get_available_model_names(e)} })

\* faulty variant: a failed listing is taken for "not listed" and the pull is attempted
is_model_available_pull_on_error(model_name, e) == Only({
    IF names.exc = "none" /\ model_name \in names.ret
    THEN [exc |-> "none", ret |-> TRUE, listed |-> e.listed, calls |-> names.calls]
    ELSE Only({ [exc |-> "none", ret |-> (p.exc = "none"), listed |-> p.listed,
                 calls |-> names.calls \o <<PullCall(model_name)>>]
                : p \in {client_pull(model_name, e)} })
    : names \in {get_available_model_names(e)} })

is_model_available(model_name, e) == Only({
    IF names.exc # "none"
    THEN [exc |-> names.exc, ret |-> FALSE, listed |-> e.listed, calls |-> names.calls]
    ELSE IF model_name \in names.ret
    THEN [exc |-> "none", ret |-> TRUE, listed |-> e.listed, calls |-> names.calls]
    ELSE Only({ [exc |-> "none", ret |-> (p.exc = "none"), listed |-> p.listed,
                 calls |-> names.calls \o <<PullCall(model_name)>>]
                : p \in {client_pull(model_name, e)} })
    : names \in {get_available_model_names(e)} })

\* faulty variant: the fallback succeeds without switching _ollama_model to the default
init_model_fallback_keep_model(model, e, a1) == Only({
    IF a2.exc # "none"
    THEN [exc |-> a2.exc, ret |-> FALSE, model |-> model,
          listed |-> a2.listed, calls |-> a1.calls \o a2.calls]
    ELSE [exc |-> "none", ret |-> a2.ret, model |-> model,
          listed |-> a2.listed, calls |-> a1.calls \o a2.calls]
    : a2 \in {is_model_available(DEFAULT_MODEL, [e EXCEPT !.listed = a1.listed])} })

\* the fallback branch of _init_model, reached when the configured model is
\* unavailable and is not the default; a1 is the first availability check
init_model_fallback(model, e, a1) == Only({
    IF a2.exc # "none"
    THEN [exc |-> a2.exc, ret |-> FALSE, model |-> model,
          listed |-> a2.listed, calls |-> a1.calls \o a2.calls]
    ELSE IF a2.ret
    THEN [exc |-> "none", ret |-> TRUE, model |-> DEFAULT_MODEL,
          listed |-> a2.listed, calls |-> a1.calls \o a2.calls]
    ELSE [exc |-> "none", ret |-> FALSE, model |-> model,
          listed |-> a2.listed, calls |-> a1.calls \o a2.calls]
    : a2 \in {is_model_available(DEFAULT_MODEL, [e EXCEPT !.listed = a1.listed])} })

\* faulty variant: the fallback is attempted for the default model too
init_model_always_fallback(model, e) == Only({
    IF a1.exc # "none"
    THEN [exc |-> a1.exc, ret |-> FALSE, model |-> model, listed |-> a1.listed,
          calls |-> a1.calls]
    ELSE IF a1.ret
    THEN [exc |-> "none", ret |-> TRUE, model |-> model, listed |-> a1.listed,
          calls |-> a1.calls]
    ELSE init_model_fallback(model, e, a1)
    : a1 \in {is_model_available(model, e)} })

\* _init_model on a generator whose _ollama_model is `model`
init_model(model, e) == Only({
    IF a1.exc # "none"
    THEN [exc |-> a1.exc, ret |-> FALSE, model |-> model, listed |-> a1.listed,
          calls |-> a1.calls]
    ELSE IF a1.ret
    THEN [exc |-> "none", ret |-> TRUE, model |-> model, listed |-> a1.listed,
          calls |-> a1.calls]
    ELSE IF model = DEFAULT_MODEL
    THEN [exc |-> "none", ret |-> FALSE, model |-> model, listed |-> a1.listed,
          calls |-> a1.calls]
    ELSE init_model_fallback(model, e, a1)
    : a1 \in {is_model_available(model, e)} })

\* faulty variant: _ollama_model is assigned before the availability check
set_model_assign_first(model_name, model, flag, e) == Only({
    IF a.exc # "none"
    THEN [exc |-> a.exc, ret |-> FALSE, model |-> model_name, flag |-> flag,
          listed |-> a.listed, calls |-> a.calls]
    ELSE IF ~a.ret
    THEN [exc |-> "none", ret |-> FALSE, model |-> model_name, flag |-> flag,
          listed |-> a.listed, calls |-> a.calls]
    ELSE [exc |-> "none", ret |-> TRUE, model |-> model_name, flag |-> TRUE,
          listed |-> a.listed, calls |-> a.calls]
    : a \in {is_model_available(model_name, e)} })

\* set_model(model_name) on a generator in state (model, flag)
set_model(model_name, model, flag, e) == Only({
    IF a.exc # "none"
    THEN [exc |-> a.exc, ret |-> FALSE, model |-> model, flag |-> flag,
          listed |-> a.listed, calls |-> a.calls]
    ELSE IF ~a.ret
    THEN [exc |-> "none", ret |-> FALSE, model |-> model, flag |-> flag,
          listed |-> a.listed, calls |-> a.calls]
    ELSE [exc |-> "none", ret |-> TRUE, model |-> model_name, flag |-> TRUE,
          listed |-> a.listed, calls |-> a.calls]
    : a \in {is_model_available(model_name, e)} })

\* _default_prompt_fn: the f-string, as the sequence of its pieces
default_prompt_fn(user_instruction, user_code) ==
    <<"Based on this instructions:\n", user_instruction,
      "\n and provided python code:\n", user_code, "\n generate python code.">>

\* a call of the caller-supplied prompt function: it returns its own prompt or raises
custom_prompt_call(raises, user_instruction, user_code) ==
    IF raises
    THEN [exc |-> "Exception", ret |-> <<>>]
    ELSE [exc |-> "none", ret |-> <<"custom prompt:", user_instruction, user_code>>]

\* faulty variant: no try around the custom prompt function
get_prompt_no_try(fn, raises, user_instruction, user_code) ==
    LET c == custom_prompt_call(raises, user_instruction, user_code)
    IN  IF fn # PyNone
        THEN [exc |-> c.exc, ret |-> c.ret]
        ELSE [exc |-> "none", ret |-> default_prompt_fn(user_instruction, user_code)]

\* _get_prompt
get_prompt(fn, raises, user_instruction, user_code) ==
    LET c == custom_prompt_call(raises, user_instruction, user_code)
    IN  IF fn # PyNone /\ c.exc = "none"
        THEN [exc |-> "none", ret |-> c.ret]
        ELSE [exc |-> "none", ret |-> default_prompt_fn(user_instruction, user_code)]

\* faulty variant: one fence delimiter is enough to cut the text
extract_code_one_fence(response_text) ==
    IF StrCount(response_text, CODE_TOKEN) < 1
    THEN response_text
    ELSE LET output_code ==
                 IF Contains(response_text, PYTHON_START_TOKEN)
                 THEN Split(Split(response_text, PYTHON_START_TOKEN)[2], CODE_TOKEN)[1]
                 ELSE Split(Split(response_text, CODE_TOKEN)[2], CODE_TOKEN)[1]
         IN  IF StartsWithNewline(output_code) THEN Tail(output_code) ELSE output_code

\* faulty variant: the text after the opening delimiter is taken up to its end
extract_code_to_end(response_text) ==
    IF StrCount(response_text, CODE_TOKEN) < 2
    THEN response_text
    ELSE LET output_code ==
                 IF Contains(response_text, PYTHON_START_TOKEN)
                 THEN From(response_text, Find(response_text, PYTHON_START_TOKEN)
                                              + Len(PYTHON_START_TOKEN))
                 ELSE From(response_text, Find(response_text, CODE_TOKEN)
                                              + Len(CODE_TOKEN))
         IN  IF StartsWithNewline(output_code) THEN Tail(output_code) ELSE output_code

\* faulty variant: the first fenced block is taken, tagged or not
extract_code_first_block(response_text) ==
    IF StrCount(response_text, CODE_TOKEN) < 2
    THEN response_text
    ELSE LET output_code == Split(Split(response_text, CODE_TOKEN)[2], CODE_TOKEN)[1]
         IN  IF StartsWithNewline(output_code) THEN Tail(output_code) ELSE output_code

\* _extract_code
extract_code(response_text) ==
    IF StrCount(response_text, CODE_TOKEN) < 2
    THEN response_text
    ELSE LET output_code ==
                 IF Contains(response_text, PYTHON_START_TOKEN)
                 THEN Split(Split(response_text, PYTHON_START_TOKEN)[2], CODE_TOKEN)[1]
                 ELSE Split(Split(response_text, CODE_TOKEN)[2], CODE_TOKEN)[1]
         IN  IF StartsWithNewline(output_code) THEN Tail(output_code) ELSE output_code

\* faulty variant: a failed inference call is made once more
client_generate_retry(model, prompt, inf) ==
    [exc |-> inf.exc,
     response |-> IF inf.exc = "none" THEN inf.response ELSE <<>>,
     calls |-> IF inf.exc = "none"
               THEN <<GenerateCall(model, prompt, FALSE)>>
               ELSE <<GenerateCall(model, prompt, FALSE), GenerateCall(model, prompt, FALSE)>>]

\* the statement self._client.generate(model=..., prompt=..., stream=False, ...):
\* one call; inf is what the service answers, [exc, response]
client_generate(model, prompt, inf) ==
    [exc |-> inf.exc,
     response |-> IF inf.exc = "none" THEN inf.response ELSE <<>>,
     calls |-> <<GenerateCall(model, prompt, FALSE)>>]

\* faulty variant: no activation is attempted in generate_code
lazy_init_never(model, flag, e) ==
    [exc |-> "none", ran |-> FALSE, ret |-> FALSE, model |-> model, flag |-> flag,
     listed |-> e.listed, calls |-> <<>>]

\* the lazy activation at the head of generate_code: the result of _init_model is
\* dropped and _is_model_initialized is not assigned
lazy_init(model, flag, e) ==
    IF ~flag
    THEN Only({ [exc |-> r.exc, ran |-> TRUE, ret |-> r.ret, model |-> r.model,
                 flag |-> flag, listed |-> r.listed, calls |-> r.calls]
                : r \in {init_model(model, e)} })
    ELSE [exc |-> "none", ran |-> FALSE, ret |-> FALSE, model |-> model, flag |-> flag,
          listed |-> e.listed, calls |-> <<>>]

\* faulty variant: the extracted code is returned in place of the raw response too
generate_code_body_extracted_twice(user_instruction, user_code, fn, raises, inf, base) == Only({
    IF prompt.exc # "none"
    THEN [base EXCEPT !.exc = prompt.exc]
    ELSE Only({ IF g.exc # "none"
                THEN [base EXCEPT !.exc = g.exc, !.calls = base.calls \o g.calls]
                ELSE [base EXCEPT !.raw = extract_code(g.response),
                                  !.out = extract_code(g.response),
                                  !.calls = base.calls \o g.calls]
                : g \in {client_generate(base.model, prompt.ret, inf)} })
    : prompt \in {get_prompt(fn, raises, user_instruction,
                             IF Truthy(user_code) THEN user_code ELSE NO_CODE)} })

\* generate_code(user_instruction, user_code) on a generator in state (model, flag, fn)
\* the rest of generate_code: placeholder, prompt, the inference call, extraction
generate_code_body(user_instruction, user_code, fn, raises, inf, base) == Only({
    IF prompt.exc # "none"
    THEN [base EXCEPT !.exc = prompt.exc]
    ELSE Only({ IF g.exc # "none"
                THEN [base EXCEPT !.exc = g.exc, !.calls = base.calls \o g.calls]
                ELSE [base EXCEPT !.raw = g.response, !.out = extract_code(g.response),
                                  !.calls = base.calls \o g.calls]
                : g \in {client_generate(base.model, prompt.ret, inf)} })
    : prompt \in {get_prompt(fn, raises, user_instruction,
                             IF Truthy(user_code) THEN user_code ELSE NO_CODE)} })

generate_code(user_instruction, user_code, model, flag, fn, e, raises, inf) == Only({
    IF i0.exc # "none"
    THEN [exc |-> i0.exc, raw |-> <<>>, out |-> <<>>, model |-> i0.model,
          flag |-> i0.flag, listed |-> i0.listed, calls |-> i0.calls,
          initRan |-> i0.ran, initRet |-> i0.ret]
    ELSE generate_code_body(user_instruction, user_code, fn, raises, inf,
             [exc |-> "none", raw |-> <<>>, out |-> <<>>, model |-> i0.model,
              flag |-> i0.flag, listed |-> i0.listed, calls |-> i0.calls,
              initRan |-> i0.ran, initRet |-> i0.ret])
    : i0 \in {lazy_init(model, flag, e)} })

\* faulty variant: the flag is set once the service answers, whatever _init_model returns
generator_init_flag_set(ollama_model_arg, fn, e) == Only({
    IF ~s.ret
    THEN [exc |-> "none", configured |-> model, model |-> model, flag |-> FALSE,
          listed |-> e.listed, calls |-> s.calls, initRan |-> FALSE, initRet |-> FALSE]
    ELSE Only({ [exc |-> r.exc, configured |-> model, model |-> r.model,
                 flag |-> (r.exc = "none"),
                 listed |-> r.listed, calls |-> s.calls \o r.calls,
                 initRan |-> TRUE, initRet |-> r.ret]
                : r \in {init_model(model, e)} })
    : model \in {IF ~Truthy(ollama_model_arg) THEN DEFAULT_MODEL ELSE ollama_model_arg},
      s \in {is_service_available(e)} })

\* __init__(ollama_model, prompt_function=fn)
generator_init(ollama_model_arg, fn, e) == Only({
    IF ~s.ret
    THEN [exc |-> "none", configured |-> model, model |-> model, flag |-> FALSE,
          listed |-> e.listed, calls |-> s.calls, initRan |-> FALSE, initRet |-> FALSE]
    ELSE Only({ [exc |-> r.exc, configured |-> model, model |-> r.model,
                 flag |-> (r.exc = "none" /\ r.ret),
                 listed |-> r.listed, calls |-> s.calls \o r.calls,
                 initRan |-> TRUE, initRet |-> r.ret]
                : r \in {init_model(model, e)} })
    : model \in {IF ~Truthy(ollama_model_arg) THEN DEFAULT_MODEL ELSE ollama_model_arg},
      s \in {is_service_available(e)} })

(***************************************************************************)
(* HistoryHandler                                                          *)
(***************************************************************************)
DEFAULT_MAX_LENGTH == 10
MaxCapacity == 3
MaxInserts == 11
MaxCallerEdits == 1

RequestedCapacities == {-1, 0} \cup (1..MaxCapacity)
HistoryEntries ==
    { [instructions |-> "add a docstring", code |-> "x = 1"],
      [instructions |-> "rename x", code |-> "x = 1"] }

\* faulty variant: the requested capacity is passed to deque unchecked
history_init_unchecked(max_history_length) == max_history_length

\* HistoryHandler.__init__: the capacity the deque is built with
history_init(max_history_length) ==
    IF max_history_length <= 0 THEN DEFAULT_MAX_LENGTH ELSE max_history_length

\* faulty variant: a full deque refuses the new item
deque_append_keep_oldest(h, maxlen, entry) ==
    IF Len(h) >= maxlen THEN h ELSE Append(h, entry)

\* deque([], maxlen).append(entry): a full deque drops its leftmost item
deque_append(h, maxlen, entry) ==
    IF Len(h) >= maxlen THEN Tail(Append(h, entry)) ELSE Append(h, entry)

\* add_new_entry
add_new_entry(h, maxlen, entry) == deque_append(h, maxlen, entry)

\* faulty variant: the list is built without the newest item of the store
get_history_without_newest(h) == [i \in 1..(Len(h) - 1) |-> h[i]]

\* get_history: list(self._history), a new list
get_history(h) == [i \in 1..Len(h) |-> h[i]]

\* faulty variant: get_history hands out self._history itself
get_history_object_deque == "deque"

\* the object get_history returns: list(...) builds a list of its own
get_history_object == "list"

(***************************************************************************)
(* CodeAssistantApp (app/code_assistant.py)                                *)
(***************************************************************************)
MAX_HISTORY_LENGTH == 10
MaxAppCapacity == 2
MaxRequests == 3

\* a key the request body does not have
Absent == "<absent>"
\* request.json of a /process-instruction request
Requests ==
    [userInstruction : {"add a docstring", Absent}, userCode : {"x = 1", "", Absent}]
\* cfg['MAX_HISTORY_LENGTH']
AppCapacities == (1..MaxAppCapacity) \cup {MAX_HISTORY_LENGTH}

\* HistoryEntry(user_instruction, user_code, output_code, response_text)
HistoryEntry(instructions, code, output_code, raw_response) ==
    [instructions |-> instructions, code |-> code,
     output_code |-> output_code, raw_response |-> raw_response]

\* faulty variant: the older handler of app/app.py, with no ConnectionError clause
error_response_no_connection_clause(exc) ==
    CASE exc = "KeyError" -> [status |-> 400, error |-> "Missing required field"]
      [] OTHER -> [status |-> 500, error |-> "Internal server error"]

\* the except clauses of _process_instruction
error_response(exc) ==
    CASE exc = "KeyError" -> [status |-> 400, error |-> "Missing required field"]
      [] exc = "ConnectionError" ->
             [status |-> 503, error |-> "Ollama service is not available"]
      [] OTHER -> [status |-> 500, error |-> "Internal server error"]

\* the generator when generate_code was not called
not_called(model, flag, e) ==
    [exc |-> "none", raw |-> <<>>, out |-> <<>>, model |-> model, flag |-> flag,
     listed |-> e.listed, calls |-> <<>>, initRan |-> FALSE, initRet |-> FALSE]

\* the answer to a request that raised exc: nothing is added to the history
failed_request(exc, key, h, g, called) ==
    [status |-> error_response(exc).status, error |-> error_response(exc).error,
     key |-> key, history |-> h, gen |-> g, called |-> called]

\* faulty variant: the history entry is added whether or not generate_code raised
process_instruction_always_add(json, h, maxlen, model, flag, fn, e, raises, inf) ==
    IF json.userInstruction = Absent
    THEN failed_request("KeyError", "userInstruction", h, not_called(model, flag, e), FALSE)
    ELSE IF json.userCode = Absent
    THEN failed_request("KeyError", "userCode", h, not_called(model, flag, e), FALSE)
    ELSE Only({
        IF g.exc # "none"
        THEN failed_request(g.exc, "",
                 add_new_entry(h, maxlen,
                     HistoryEntry(json.userInstruction, json.userCode, g.out, g.raw)),
                 g, TRUE)
        ELSE [status |-> 200, error |-> "", key |-> "",
              history |-> add_new_entry(h, maxlen,
                              HistoryEntry(json.userInstruction, json.userCode,
                                           g.out, g.raw)),
              gen |-> g, called |-> TRUE]
        : g \in {generate_code(json.userInstruction, json.userCode, model, flag, fn,
                               e, raises, inf)} })

\* _process_instruction: both keys are read, generate_code is called, the entry is
\* added to the history and 200 is answered; an exception raised on the way
\* ends the try block and is answered by its except clause
process_instruction(json, h, maxlen, model, flag, fn, e, raises, inf) ==
    IF json.userInstruction = Absent
    THEN failed_request("KeyError", "userInstruction", h, not_called(model, flag, e), FALSE)
    ELSE IF json.userCode = Absent
    THEN failed_request("KeyError", "userCode", h, not_called(model, flag, e), FALSE)
    ELSE Only({
        IF g.exc # "none"
        THEN failed_request(g.exc, "", h, g, TRUE)
        ELSE [status |-> 200, error |-> "", key |-> "",
              history |-> add_new_entry(h, maxlen,
                              HistoryEntry(json.userInstruction, json.userCode,
                                           g.out, g.raw)),
              gen |-> g, called |-> TRUE]
        : g \in {generate_code(json.userInstruction, json.userCode, model, flag, fn,
                               e, raises, inf)} })

(***************************************************************************)
(* State machine                                                           *)
(***************************************************************************)
\* The observation of a call: what it was given (op, arg, instruction, code; raises
\* and infExc, infResponse: what the prompt function and the inference call do in
\* it), how it
\* ended (exc, ret, raw, out), the client calls it made, whether _init_model ran in
\* it and what that returned, whether an earlier call's _init_model had returned
\* True (readyBefore), and the state it started from (pre; for __init__, with the
\* model the constructor stored before probing).  NoCall: no call observed.
\* The observation of a /process-instruction request: how it was answered (status,
\* error, key: the missing key), what it was given (json; infExc: what the inference
\* call does in it), the state it started from (svc, flag), whether generate_code
\* was called and the client calls that made.  NoResponse: no request observed.
NoResponse ==
    [status |-> 0, error |-> "", key |-> "", json |-> <<>>, svc |-> "", flag |-> FALSE,
     infExc |-> "none", called |-> FALSE, calls |-> <<>>]

NoCall ==
    [op |-> "none", arg |-> "", instruction |-> "", code |-> "", raises |-> FALSE,
     infExc |-> "none", infResponse |-> <<>>, exc |-> "none", ret |-> FALSE,
     calls |-> <<>>, initRan |-> FALSE, initRet |-> FALSE,
     readyBefore |-> FALSE, raw |-> <<>>, out |-> <<>>,
     pre |-> [model |-> PyNone, flag |-> FALSE, listed |-> {}]]

\* the generator and service state a call starts from
Pre == [model |-> ollama_model, flag |-> is_model_initialized, listed |-> listed]
Env == [svc |-> svc, listed |-> listed, pullable |-> pullable]

\* The request threads of the server.  A thread in generate_code is at "list" or
\* "pull" (before that call of is_model_available(name), made by _init_model for the
\* configured model, stage 1, or for the default, stage 2), at "infer" (before
\* self._client.generate) or "done"; probes counts its list and pull calls, model0
\* is _ollama_model as the call found it, overlapped tells whether another
\* thread was in generate_code during the call, exc how the call ended.
Threads == {"t1", "t2"}
\* in the history calls, two threads add entries while a third reads
Readers == {"t3"}
HistoryThreads == Threads \cup Readers
NoThread ==
    [pc |-> "idle", stage |-> 0, name |-> "", probes |-> 0, model0 |-> "",
     overlapped |-> FALSE, exc |-> "none"]
Running(th) == th.pc \notin {"idle", "done"}
\* A thread in a HistoryHandler call is at "called" (in the method, before its
\* statement on the deque), "applied" (after it, before the return) or "returned".
\* call: the add_new_entry call [id, entry] it makes; result: what get_history
\* built; before / after: the add_new_entry calls that had returned when the call
\* began / when it returned.
NoHistoryCall ==
    [pc |-> "idle", op |-> "none", call |-> <<>>, result |-> <<>>,
     before |-> {}, after |-> {}]
InitThreads ==
    /\ threads = [t \in Threads |-> NoThread]
    /\ hthreads = [t \in HistoryThreads |-> NoHistoryCall]
    /\ invoked = 0
    /\ applied = <<>>
    /\ completed = {}

\* the service is in any state; no generator has been constructed
InitGenerator ==
    /\ svc \in {"up"} \cup Exceptions
    /\ listed \in SUBSET Models
    /\ pullable \in SUBSET Models
    /\ gpc = "new"
    /\ ollama_model = PyNone
    /\ is_model_initialized = FALSE
    /\ custom_prompt_fn = PyNone
    /\ last = NoCall
    /\ everReady = FALSE

\* no history store has been constructed, no application created
InitHistory ==
    /\ hpc = "new"
    /\ history = <<>>
    /\ history_max_length = 0
    /\ inserted = <<>>
    /\ returned = <<>>
    /\ requested = 0
    /\ returned_object = "none"
    /\ snapshot = <<>>
    /\ edits = 0
    /\ response = NoResponse
    /\ nRequests = 0
    /\ nSuccess = 0

Init ==
    /\ InitGenerator
    /\ InitHistory
    /\ xpc = "none"
    /\ ext_response_text = <<>>
    /\ ext_output_code = <<>>
    /\ ext_output_again = <<>>
    /\ InitThreads

\* OllamaCodeGenerator(ollama_model=arg, prompt_function=fn)
Construct(arg, fn) ==
    /\ gpc = "new"
    /\ \E r \in {generator_init(arg, fn, Env)} :
           /\ gpc' = IF r.exc = "none" THEN "ready" ELSE "new"
           /\ ollama_model' = r.model
           /\ is_model_initialized' = r.flag
           /\ custom_prompt_fn' = fn
           /\ listed' = r.listed
           /\ everReady' = (r.initRan /\ r.initRet)
           /\ last' = [NoCall EXCEPT !.op = "__init__", !.arg = arg, !.exc = r.exc,
                                     !.calls = r.calls, !.initRan = r.initRan,
                                     !.initRet = r.initRet,
                                     !.pre = [Pre EXCEPT !.model = r.configured]]
    /\ UNCHANGED <<svc, pullable, histVars, callerVars, appVars, otherVars>>

\* generate_code(user_instruction, user_code); raises: the custom prompt function
\* raises on this call; inf: the service's answer to the inference call
GenerateCode(user_instruction, user_code, raises, inf) ==
    /\ gpc = "ready"
    /\ raises => custom_prompt_fn # PyNone
    /\ \E r \in {generate_code(user_instruction, user_code, ollama_model,
                                is_model_initialized, custom_prompt_fn, Env, raises, inf)} :
           /\ ollama_model' = r.model
           /\ is_model_initialized' = r.flag
           /\ listed' = r.listed
           /\ everReady' = (everReady \/ (r.initRan /\ r.initRet))
           /\ last' = [NoCall EXCEPT !.op = "generate_code",
                                     !.instruction = user_instruction, !.code = user_code,
                                     !.raises = raises, !.infExc = inf.exc,
                                     !.infResponse = inf.response,
                                     !.exc = r.exc, !.calls = r.calls,
                                     !.initRan = r.initRan, !.initRet = r.initRet,
                                     !.readyBefore = everReady,
                                     !.raw = r.raw, !.out = r.out, !.pre = Pre]
    /\ UNCHANGED <<svc, pullable, gpc, custom_prompt_fn, histVars, callerVars, appVars, otherVars>>

\* set_model(model_name)
SetModel(model_name) ==
    /\ gpc = "ready"
    /\ \E r \in {set_model(model_name, ollama_model, is_model_initialized, Env)} :
           /\ ollama_model' = r.model
           /\ is_model_initialized' = r.flag
           /\ listed' = r.listed
           /\ last' = [NoCall EXCEPT !.op = "set_model", !.arg = model_name,
                                     !.exc = r.exc, !.ret = r.ret, !.calls = r.calls,
                                     !.readyBefore = everReady, !.pre = Pre]
    /\ UNCHANGED <<svc, pullable, gpc, custom_prompt_fn, everReady, histVars, callerVars, appVars, otherVars>>

\* is_model_available(model_name)
IsModelAvailable(model_name) ==
    /\ gpc = "ready"
    /\ \E r \in {is_model_available(model_name, Env)} :
           /\ listed' = r.listed
           /\ last' = [NoCall EXCEPT !.op = "is_model_available", !.arg = model_name,
                                     !.exc = r.exc, !.ret = r.ret, !.calls = r.calls,
                                     !.readyBefore = everReady, !.pre = Pre]
    /\ UNCHANGED <<svc, pullable, gpc, ollama_model, is_model_initialized,
                   custom_prompt_fn, everReady, histVars, callerVars, appVars, otherVars>>

\* is_service_available(), as _health_check calls it
IsServiceAvailable ==
    /\ gpc = "ready"
    /\ \E r \in {is_service_available(Env)} :
           last' = [NoCall EXCEPT !.op = "is_service_available", !.exc = r.exc,
                                 !.ret = r.ret, !.calls = r.calls,
                                 !.readyBefore = everReady, !.pre = Pre]
    /\ UNCHANGED <<envVars, gpc, ollama_model, is_model_initialized, custom_prompt_fn,
                   everReady, histVars, callerVars, appVars, otherVars>>

\* the service goes down, comes back, or starts failing differently; the
\* observation of the last call, which was made under the old service state, is dropped
ServiceChange(s) ==
    /\ s # svc
    /\ svc' = s
    /\ last' = NoCall
    /\ UNCHANGED <<listed, pullable, gpc, ollama_model, is_model_initialized,
                   custom_prompt_fn, everReady, histVars, callerVars, appVars, otherVars>>

InferenceAnswers ==
    {[exc |-> "none", response |-> r] : r \in Responses}
        \cup {[exc |-> x, response |-> <<>>] : x \in Exceptions}

Next ==
    \/ \E arg \in ModelArgs, fn \in {PyNone, "custom"} : Construct(arg, fn)
    \/ \E i \in Instructions, c \in UserCodes, raises \in BOOLEAN, inf \in InferenceAnswers :
           GenerateCode(i, c, raises, inf)
    \/ \E m \in Models : SetModel(m)
    \/ \E m \in Models : IsModelAvailable(m)
    \/ IsServiceAvailable
    \/ \E s \in {"up"} \cup Exceptions : ServiceChange(s)

Spec == Init /\ [][Next]_vars

\* HistoryHandler(max_history_length)
HistoryInit(max_history_length) ==
    /\ hpc = "new"
    /\ hpc' = "ready"
    /\ history_max_length' = history_init(max_history_length)
    /\ history' = <<>>
    /\ requested' = max_history_length
    /\ UNCHANGED <<inserted, returned, returned_object, snapshot, edits,
                   envVars, genVars, appVars, otherVars>>

\* add_new_entry(entry)
AddNewEntry(entry) ==
    /\ hpc = "ready"
    /\ Len(inserted) < MaxInserts
    /\ history' = add_new_entry(history, history_max_length, entry)
    /\ inserted' = Append(inserted, entry)
    /\ returned' = IF returned_object = "deque" THEN history' ELSE returned
    /\ UNCHANGED <<hpc, history_max_length, callerVars, envVars, genVars, appVars, otherVars>>

\* get_history()
GetHistory ==
    /\ hpc = "ready"
    /\ returned' = get_history(history)
    /\ returned_object' = get_history_object
    /\ snapshot' = history
    /\ edits' = 0
    /\ UNCHANGED <<hpc, history, history_max_length, inserted, requested,
                   envVars, genVars, appVars, otherVars>>

\* the caller removes the first item of the list get_history gave it
\* (del returned[0]); on the deque itself this is popleft
CallerEdit ==
    /\ hpc = "ready"
    /\ returned_object # "none"
    /\ returned # <<>>
    /\ edits < MaxCallerEdits
    /\ returned' = Tail(returned)
    /\ edits' = edits + 1
    /\ history' = IF returned_object = "deque" THEN Tail(history) ELSE history
    /\ UNCHANGED <<hpc, history_max_length, inserted, requested, returned_object,
                   snapshot, envVars, genVars, appVars, otherVars>>

HistoryInitState ==
    /\ Init
    /\ svc = "up" /\ listed = {} /\ pullable = {}

HistoryNext ==
    \/ \E n \in RequestedCapacities : HistoryInit(n)
    \/ \E entry \in HistoryEntries : AddNewEntry(entry)
    \/ GetHistory
    \/ CallerEdit

SpecHistory == HistoryInitState /\ [][HistoryNext]_vars

\* create_app: the generator is built from cfg['OLLAMA'] and the history from
\* cfg['MAX_HISTORY_LENGTH']; a constructor that raises leaves no application
CreateApp(arg, capacity) ==
    /\ gpc = "new" /\ hpc = "new"
    /\ \E r \in {generator_init(arg, PyNone, Env)} :
           /\ gpc' = IF r.exc = "none" THEN "ready" ELSE "new"
           /\ hpc' = IF r.exc = "none" THEN "ready" ELSE "new"
           /\ history_max_length' = IF r.exc = "none" THEN history_init(capacity) ELSE 0
           /\ ollama_model' = r.model
           /\ is_model_initialized' = r.flag
           /\ listed' = r.listed
           /\ everReady' = (r.initRan /\ r.initRet)
           /\ last' = [NoCall EXCEPT !.op = "__init__", !.arg = arg, !.exc = r.exc,
                                     !.calls = r.calls, !.initRan = r.initRan,
                                     !.initRet = r.initRet,
                                     !.pre = [Pre EXCEPT !.model = r.configured]]
    /\ requested' = capacity
    /\ UNCHANGED <<svc, pullable, custom_prompt_fn, history, inserted, returned,
                   returned_object, snapshot, edits, appVars, otherVars>>

\* POST /process-instruction with body json; inf: the service's answer to the
\* inference call, if one is made
ProcessInstruction(json, inf) ==
    /\ gpc = "ready" /\ hpc = "ready"
    /\ nRequests < MaxRequests
    /\ \E r \in {process_instruction(json, history, history_max_length, ollama_model,
                                      is_model_initialized, custom_prompt_fn, Env,
                                      FALSE, inf)} :
           /\ history' = r.history
           /\ ollama_model' = r.gen.model
           /\ is_model_initialized' = r.gen.flag
           /\ listed' = r.gen.listed
           /\ everReady' = (everReady \/ (r.gen.initRan /\ r.gen.initRet))
           /\ last' = IF ~r.called THEN NoCall
                      ELSE [NoCall EXCEPT !.op = "generate_code",
                                          !.instruction = json.userInstruction,
                                          !.code = json.userCode,
                                          !.infExc = inf.exc,
                                          !.infResponse = inf.response,
                                          !.exc = r.gen.exc,
                                          !.calls = r.gen.calls,
                                          !.initRan = r.gen.initRan,
                                          !.initRet = r.gen.initRet,
                                          !.readyBefore = everReady,
                                          !.raw = r.gen.raw, !.out = r.gen.out,
                                          !.pre = Pre]
           /\ response' = [status |-> r.status, error |-> r.error, key |-> r.key,
                           json |-> json, svc |-> svc, flag |-> is_model_initialized,
                           infExc |-> inf.exc, called |-> r.called,
                           calls |-> r.gen.calls]
           /\ nRequests' = nRequests + 1
           /\ nSuccess' = IF r.status = 200 THEN nSuccess + 1 ELSE nSuccess
           /\ inserted' = IF r.status = 200
                          THEN Append(inserted,
                                   HistoryEntry(json.userInstruction, json.userCode,
                                                r.gen.out, r.gen.raw))
                          ELSE inserted
    /\ UNCHANGED <<svc, pullable, gpc, custom_prompt_fn, hpc, history_max_length, returned,
                   callerVars, otherVars>>

\* the inference call's answers to the application's requests
AppInferenceAnswers ==
    {[exc |-> "none", response |-> r] : r \in {<<"x", Tick, Tick, Tick, "x">>}}
        \cup {[exc |-> x, response |-> <<>>] : x \in Exceptions}

\* the service's state changes between two requests; the observations of the
\* last call and request, made under the old service state, are dropped
ServiceChangeApp(s) ==
    /\ gpc = "ready"
    /\ s # svc
    /\ svc' = s
    /\ last' = NoCall
    /\ response' = NoResponse
    /\ UNCHANGED <<listed, pullable, gpc, ollama_model, is_model_initialized,
                   custom_prompt_fn, everReady, histVars, callerVars, nRequests, nSuccess,
                   otherVars>>

AppNext ==
    \/ \E arg \in Models, capacity \in AppCapacities : CreateApp(arg, capacity)
    \/ \E json \in Requests, inf \in AppInferenceAnswers : ProcessInstruction(json, inf)
    \/ \E s \in {"up"} \cup Exceptions : ServiceChangeApp(s)

SpecApp == Init /\ [][AppNext]_vars

(***************************************************************************)
(* generate_code in concurrent request threads.  The code holds no lock; a  *)
(* thread can be suspended at each call of the client, which blocks on the  *)
(* network, and the statements between two such calls run as one step.      *)
(***************************************************************************)
\* is_model_available(th.name) has returned ok in _init_model: what the thread
\* does next and what it leaves in _ollama_model (model: its current value)
after_is_model_available(th, ok, model) ==
    IF th.stage = 1
    THEN IF ok THEN [th |-> [th EXCEPT !.pc = "infer"], model |-> model]
         ELSE IF model # DEFAULT_MODEL
         THEN [th |-> [th EXCEPT !.pc = "list", !.stage = 2, !.name = DEFAULT_MODEL],
               model |-> model]
         ELSE [th |-> [th EXCEPT !.pc = "infer"], model |-> model]
    ELSE [th |-> [th EXCEPT !.pc = "infer"],
          model |-> IF ok THEN DEFAULT_MODEL ELSE model]

\* thread t enters generate_code: the flag is read, and _init_model is entered
\* if it is not set
ThreadStart(t) ==
    /\ gpc = "ready"
    /\ threads[t].pc = "idle"
    /\ threads' =
           [u \in Threads |->
               IF u = t
               THEN [NoThread EXCEPT
                        !.pc = IF is_model_initialized THEN "infer" ELSE "list",
                        !.stage = IF is_model_initialized THEN 0 ELSE 1,
                        !.name = ollama_model,
                        !.model0 = ollama_model,
                        !.overlapped = \E v \in Threads \ {t} : Running(threads[v])]
               ELSE IF Running(threads[u])
               THEN [threads[u] EXCEPT !.overlapped = TRUE]
               ELSE threads[u]]
    /\ UNCHANGED <<envVars, genVars, histVars, callerVars, appVars, extVars,
                   hthreads, invoked, applied, completed>>

\* thread t gets the answer of client.list() in is_model_available
ThreadList(t) ==
    /\ threads[t].pc = "list"
    /\ \E names \in {get_available_model_names(Env)},
          th \in {[threads[t] EXCEPT !.probes = @ + 1]} :
           IF names.exc # "none"
           THEN /\ threads' = [threads EXCEPT ![t] = [th EXCEPT !.pc = "done",
                                                               !.exc = names.exc]]
                /\ UNCHANGED ollama_model
           ELSE IF th.name \in names.ret
           THEN \E a \in {after_is_model_available(th, TRUE, ollama_model)} :
                    /\ threads' = [threads EXCEPT ![t] = a.th]
                    /\ ollama_model' = a.model
           ELSE /\ threads' = [threads EXCEPT ![t] = [th EXCEPT !.pc = "pull"]]
                /\ UNCHANGED ollama_model
    /\ UNCHANGED <<envVars, gpc, is_model_initialized, custom_prompt_fn, last, everReady,
                   histVars, callerVars, appVars, extVars,
                   hthreads, invoked, applied, completed>>

\* thread t gets the answer of client.pull(name) in is_model_available
ThreadPull(t) ==
    /\ threads[t].pc = "pull"
    /\ \E p \in {client_pull(threads[t].name, Env)} :
       \E a \in {after_is_model_available([threads[t] EXCEPT !.probes = @ + 1],
                                          p.exc = "none", ollama_model)} :
           /\ listed' = p.listed
           /\ threads' = [threads EXCEPT ![t] = a.th]
           /\ ollama_model' = a.model
    /\ UNCHANGED <<svc, pullable, gpc, is_model_initialized, custom_prompt_fn, last,
                   everReady, histVars, callerVars, appVars, extVars,
                   hthreads, invoked, applied, completed>>

\* thread t gets the answer of client.generate(...) and leaves generate_code
ThreadInfer(t, exc) ==
    /\ threads[t].pc = "infer"
    /\ threads' = [threads EXCEPT ![t] = [@ EXCEPT !.pc = "done", !.exc = exc]]
    /\ UNCHANGED <<envVars, genVars, histVars, callerVars, appVars, extVars,
                   hthreads, invoked, applied, completed>>

ThreadsNext ==
    \/ \E arg \in Models : Construct(arg, PyNone)
    \/ \E s \in {"up"} \cup Exceptions : ServiceChange(s)
    \/ \E t \in Threads : ThreadStart(t)
    \/ \E t \in Threads : ThreadList(t)
    \/ \E t \in Threads : ThreadPull(t)
    \/ \E t \in Threads, exc \in {"none"} \cup Exceptions : ThreadInfer(t, exc)

SpecThreads == Init /\ [][ThreadsNext]_vars

(***************************************************************************)
(* HistoryHandler in concurrent request threads.  The class holds no lock;  *)
(* deque.append and list(deque) each run as one step of the interpreter     *)
(* (CPython runs a call into C without switching threads), and a thread can *)
(* be suspended before and after that step.                                 *)
(***************************************************************************)
MaxThreadAdds == 3

\* thread t calls add_new_entry(entry)
ThreadCallAdd(t, entry) ==
    /\ hpc = "ready"
    /\ hthreads[t].pc \in {"idle", "returned"}
    /\ invoked < MaxThreadAdds
    /\ invoked' = invoked + 1
    /\ hthreads' = [hthreads EXCEPT ![t] =
                        [NoHistoryCall EXCEPT !.pc = "called", !.op = "add",
                                              !.call = [id |-> invoked + 1, entry |-> entry],
                                              !.before = completed]]
    /\ UNCHANGED <<envVars, genVars, histVars, callerVars, appVars, extVars,
                   threads, applied, completed>>

\* thread t runs self._history.append(entry)
ThreadAppend(t) ==
    /\ hthreads[t].pc = "called" /\ hthreads[t].op = "add"
    /\ history' = add_new_entry(history, history_max_length, hthreads[t].call.entry)
    /\ inserted' = Append(inserted, hthreads[t].call.entry)
    /\ applied' = Append(applied, hthreads[t].call)
    /\ hthreads' = [hthreads EXCEPT ![t].pc = "applied"]
    /\ UNCHANGED <<hpc, history_max_length, returned, envVars, genVars, callerVars,
                   appVars, extVars, threads, invoked, completed>>

\* thread t calls get_history()
ThreadCallGet(t) ==
    /\ hpc = "ready"
    /\ hthreads[t].pc \in {"idle", "returned"}
    /\ hthreads' = [hthreads EXCEPT ![t] =
                        [NoHistoryCall EXCEPT !.pc = "called", !.op = "get",
                                              !.before = completed]]
    /\ UNCHANGED <<envVars, genVars, histVars, callerVars, appVars, extVars,
                   threads, invoked, applied, completed>>

\* thread t runs list(self._history)
ThreadListHistory(t) ==
    /\ hthreads[t].pc = "called" /\ hthreads[t].op = "get"
    /\ hthreads' = [hthreads EXCEPT ![t].pc = "applied",
                                    ![t].result = get_history(history)]
    /\ UNCHANGED <<envVars, genVars, histVars, callerVars, appVars, extVars,
                   threads, invoked, applied, completed>>

\* thread t returns from its call; of a returned add_new_entry call the thread
\* holds nothing
ThreadReturn(t) ==
    /\ hthreads[t].pc = "applied"
    /\ completed' = IF hthreads[t].op = "add"
                     THEN completed \cup {hthreads[t].call} ELSE completed
    /\ hthreads' = [hthreads EXCEPT ![t] =
                        IF hthreads[t].op = "add"
                        THEN [NoHistoryCall EXCEPT !.pc = "returned"]
                        ELSE [@ EXCEPT !.pc = "returned", !.after = completed]]
    /\ UNCHANGED <<envVars, genVars, histVars, callerVars, appVars, extVars,
                   threads, invoked, applied>>

HistoryThreadsNext ==
    \/ \E n \in 1..MaxCapacity : HistoryInit(n)
    \/ \E t \in Threads, entry \in HistoryEntries : ThreadCallAdd(t, entry)
    \/ \E t \in Threads : ThreadAppend(t)
    \/ \E t \in Readers : ThreadCallGet(t)
    \/ \E t \in Readers : ThreadListHistory(t)
    \/ \E t \in HistoryThreads : ThreadReturn(t)

SpecHistoryThreads == HistoryInitState /\ [][HistoryThreadsNext]_vars

(***************************************************************************)
(* _extract_code on its own: every text of up to MaxTokens pieces, a piece *)
(* being a fence delimiter or a single character                           *)
(***************************************************************************)
MaxTokens == 7
Chars == {Tick, "P", "\n", "x"}
Tokens == {CODE_TOKEN} \cup {<<c>> : c \in Chars}

\* the pieces joined into one text
RECURSIVE Join(_)
Join(pieces) == IF pieces = <<>> THEN <<>> ELSE Head(pieces) \o Join(Tail(pieces))

Texts == { Join(pieces) : pieces \in UNION { [1..n -> Tokens] : n \in 0..MaxTokens } }

ExtractInit ==
    /\ InitGenerator /\ svc = "up" /\ listed = {} /\ pullable = {}
    /\ InitHistory
    /\ xpc = "given"
    /\ ext_response_text \in Texts
    /\ ext_output_code = <<>>
    /\ ext_output_again = <<>>
    /\ InitThreads

\* self._extract_code(response_text)
ExtractCode ==
    /\ xpc = "given"
    /\ ext_output_code' = extract_code(ext_response_text)
    /\ xpc' = "done"
    /\ UNCHANGED <<ext_response_text, ext_output_again, envVars, genVars, histVars,
                   callerVars, appVars, threadVars>>

\* self._extract_code(output_code): the result is given to _extract_code again
ExtractAgain ==
    /\ xpc = "done"
    /\ ext_output_again' = extract_code(ext_output_code)
    /\ xpc' = "again"
    /\ UNCHANGED <<ext_response_text, ext_output_code, envVars, genVars, histVars,
                   callerVars, appVars, threadVars>>

ExtractNext == ExtractCode \/ ExtractAgain

SpecExtract == ExtractInit /\ [][ExtractNext]_vars

(***************************************************************************)
(* Properties                                                              *)
(***************************************************************************)
Min(a, b) == IF a <= b THEN a ELSE b
LastN(s, n) == SubSeq(s, Len(s) - n + 1, Len(s))
Available(m, ls) == m \in ls \cup pullable
PullCalls == CallsOf(last.calls, "pull")
InferCalls == CallsOf(last.calls, "generate")
NProbes == NCalls(last.calls, "list") + NCalls(last.calls, "pull")
\* _init_model ran in the last call and its listing queries were answered
InitCompleted == last.op \in {"__init__", "generate_code"} /\ last.initRan /\ svc = "up"

\* C1: after K calls of add_new_entry on a store of capacity N, get_history returns
\* exactly the last min(K, N) inserted entries, oldest first (the first K-N are evicted).
C1_BoundedEviction ==
    hpc = "ready" =>
        get_history(history)
            = LastN(inserted, Min(Len(inserted), history_max_length))

C1_Witness ==
    /\ hpc = "ready"
    /\ Len(inserted) > history_max_length + 1
    /\ returned = get_history(history)
    /\ Len(returned) = history_max_length
    /\ returned[1] # returned[Len(returned)]

\* C2: when the configured model is neither listed nor pullable and the default
\* model is available, _init_model returns True and _ollama_model is the default.
C2_Fallback ==
    (/\ InitCompleted
     /\ ~Available(last.pre.model, last.pre.listed)
     /\ Available(DEFAULT_MODEL, last.pre.listed))
        => (last.initRet /\ ollama_model = DEFAULT_MODEL)

C2_Witness ==
    /\ InitCompleted
    /\ last.op = "generate_code"
    /\ last.pre.model = "ghost-model"
    /\ ~Available(last.pre.model, last.pre.listed)
    /\ Available(DEFAULT_MODEL, last.pre.listed)
    /\ ollama_model = DEFAULT_MODEL

\* C3 (as claimed): when the configured and the default model are both absent and
\* unpullable, _init_model returns False and the generate_code call fails with the
\* service-unavailable condition without making an inference call.
C3_NoInferenceWhenUnavailable ==
    (/\ InitCompleted
     /\ last.op = "generate_code"
     /\ ~Available(last.pre.model, last.pre.listed)
     /\ ~Available(DEFAULT_MODEL, last.pre.listed))
        => (/\ ~last.initRet
            /\ InferCalls = <<>>
            /\ last.exc = "ConnectionError")

\* C4 (as claimed): once an _init_model call has returned True, at construction or
\* inside generate_code, a later generate_code call makes no list and no pull call.
C4_NoProbeOnceReady ==
    (last.op = "generate_code" /\ last.readyBefore) => NProbes = 0

\* C5: set_model(name) sets _ollama_model = name and the flag, and returns True,
\* exactly when name is available; otherwise (unavailable, or the check raises)
\* _ollama_model and the flag are what they were before the call.
C5_SetModelFrame ==
    last.op = "set_model" =>
        /\ (last.exc = "none" /\ last.ret)
               <=> (svc = "up" /\ Available(last.arg, last.pre.listed))
        /\ IF last.exc = "none" /\ last.ret
           THEN ollama_model = last.arg /\ is_model_initialized
           ELSE /\ ollama_model = last.pre.model
                /\ is_model_initialized = last.pre.flag

C5_Witness ==
    /\ last.op = "set_model"
    /\ last.exc = "none" /\ ~last.ret
    /\ last.arg # ollama_model
    /\ ~is_model_initialized

\* C6: is_model_available(name) returns True without a pull when name is listed;
\* when name is not listed it pulls name exactly once and returns True iff the pull
\* succeeded, False (no exception) when it failed.
C6_IsModelAvailable ==
    (last.op = "is_model_available" /\ svc = "up") =>
        /\ last.exc = "none"
        /\ IF last.arg \in last.pre.listed
           THEN last.ret /\ PullCalls = <<>>
           ELSE /\ PullCalls = <<PullCall(last.arg)>>
                /\ last.ret <=> last.arg \in pullable
                /\ last.ret <=> last.arg \in listed

C6_Witness ==
    /\ last.op = "is_model_available" /\ svc = "up"
    /\ last.arg \notin last.pre.listed
    /\ PullCalls = <<PullCall(last.arg)>>
    /\ ~last.ret

\* C7 (as claimed): when the listing query inside is_model_available fails, the
\* call still pulls the model and returns a boolean instead of raising.
C7_ListErrorTreatedAsNotFound ==
    (last.op = "is_model_available" /\ svc # "up") =>
        (last.exc = "none" /\ PullCalls = <<PullCall(last.arg)>>)

\* C7 (amended): when the listing query inside is_model_available fails, the call
\* raises that error to its caller and makes no pull call.
C7_ListErrorPropagates ==
    (last.op = "is_model_available" /\ svc # "up") =>
        (last.exc = svc /\ PullCalls = <<>> /\ listed = last.pre.listed)

C7_Witness ==
    /\ last.op = "is_model_available"
    /\ svc = "ConnectionError"
    /\ last.exc = "ConnectionError"
    /\ last.arg \in pullable

\* C8: is_service_available returns True iff the listing query completes without
\* error, never raises, leaves _ollama_model and the flag unchanged and makes no
\* pull and no inference call.
C8_ServiceProbe ==
    last.op = "is_service_available" =>
        /\ last.exc = "none"
        /\ last.ret <=> svc = "up"
        /\ ollama_model = last.pre.model
        /\ is_model_initialized = last.pre.flag
        /\ listed = last.pre.listed
        /\ last.calls = <<ListCall>>

C8_Witness ==
    /\ last.op = "is_service_available"
    /\ svc = "Exception"
    /\ ~last.ret
    /\ last.exc = "none"

\* C9: a generate_code call makes at most one inference call, with stream=False and
\* for the current _ollama_model; if that call fails, its error reaches the caller
\* and no second inference call is made.
C9_SingleInference ==
    last.op = "generate_code" =>
        /\ Len(InferCalls) <= 1
        /\ \A i \in 1..Len(InferCalls) :
               ~InferCalls[i].stream /\ InferCalls[i].model = ollama_model
        /\ (InferCalls # <<>> /\ last.infExc # "none")
               => (last.exc = last.infExc /\ Len(InferCalls) = 1)

C9_Witness ==
    /\ last.op = "generate_code"
    /\ Len(InferCalls) = 1
    /\ last.infExc = "ConnectionError"
    /\ last.exc = "ConnectionError"
    /\ ollama_model # last.pre.model

\* C10: when a custom prompt function is configured and raises in a generate_code
\* call, the prompt of the inference call is the default prompt for the same
\* instruction and code, and the call ends as the inference call ends.
C10_PromptFallback ==
    (/\ last.op = "generate_code"
     /\ custom_prompt_fn # PyNone
     /\ last.raises
     /\ (last.initRan => svc = "up"))
        => /\ Len(InferCalls) = 1
           /\ InferCalls[1].prompt
                  = default_prompt_fn(last.instruction,
                        IF Truthy(last.code) THEN last.code ELSE NO_CODE)
           /\ last.exc = last.infExc

C10_Witness ==
    /\ last.op = "generate_code"
    /\ custom_prompt_fn # PyNone
    /\ last.raises
    /\ last.exc = "none"
    /\ Len(InferCalls) = 1
    /\ InferCalls[1].prompt = default_prompt_fn(last.instruction, last.code)

\* C18: a generate_code call that returns gives back the response text of its
\* inference call as it came, and _extract_code of that text as the output code.
C18_RawAndExtracted ==
    (last.op = "generate_code" /\ last.exc = "none") =>
        /\ Len(InferCalls) = 1
        /\ last.raw = last.infResponse
        /\ last.out = extract_code(last.infResponse)

C18_Witness ==
    /\ last.op = "generate_code"
    /\ last.exc = "none"
    /\ Contains(last.raw, PYTHON_START_TOKEN)
    /\ last.out = <<"x", "\n">>
    /\ last.out # last.raw

\* the availability checks _init_model made in the last call: its list calls,
\* less the one __init__ makes in is_service_available
InitChecks == NCalls(last.calls, "list") - (IF last.op = "__init__" THEN 1 ELSE 0)

\* C21: _init_model checks the default model a second time only when the configured
\* model is another one: with the default configured and neither listed nor pullable
\* it makes one availability check (one list call, one pull of the default), returns
\* False and leaves _ollama_model alone; and whenever it returns False, after a
\* fallback attempt or not, _ollama_model is the configured model.
C21_FallbackOnlyForOtherModel ==
    InitCompleted =>
        /\ (last.pre.model = DEFAULT_MODEL /\ ~Available(DEFAULT_MODEL, last.pre.listed))
               => /\ InitChecks = 1
                  /\ PullCalls = <<PullCall(DEFAULT_MODEL)>>
                  /\ ~last.initRet
                  /\ ollama_model = DEFAULT_MODEL
        /\ InitChecks > 1 => last.pre.model # DEFAULT_MODEL
        /\ ~last.initRet => ollama_model = last.pre.model

C21_Witness ==
    /\ InitCompleted
    /\ last.op = "generate_code"
    /\ last.pre.model = DEFAULT_MODEL
    /\ ~Available(DEFAULT_MODEL, last.pre.listed)
    /\ InitChecks = 1
    /\ ~last.initRet

\* the last call found model m listed or pulled it
ConfirmedInLastCall(m) ==
    /\ NCalls(last.calls, "list") > 0
    /\ m \in last.pre.listed \/ (PullCall(m) \in {PullCalls[i] : i \in 1..Len(PullCalls)}
                                    /\ m \in listed)

\* C22: whenever the flag is set, _ollama_model is a model the service lists, found
\* listed or pulled by the call that set the flag: __init__ sets it only with an
\* _init_model that returned True for that model, set_model only for the model it
\* checked, and a generate_code call on a ready generator changes neither.
C22_ReadyMeansConfirmed ==
    (gpc = "ready" /\ is_model_initialized) =>
        /\ ollama_model \in listed
        /\ last.op = "__init__"
               => last.initRan /\ last.initRet /\ ConfirmedInLastCall(ollama_model)
        /\ (last.op = "set_model" /\ last.exc = "none" /\ last.ret)
               => ollama_model = last.arg /\ ConfirmedInLastCall(ollama_model)
        /\ (last.op = "set_model" /\ ~(last.exc = "none" /\ last.ret))
               => last.pre.flag /\ ollama_model = last.pre.model
        /\ last.op \in {"generate_code", "is_model_available", "is_service_available"}
               => last.pre.flag /\ ollama_model = last.pre.model

C22_Witness ==
    /\ gpc = "ready"
    /\ is_model_initialized
    /\ last.op = "__init__"
    /\ last.pre.model = "ghost-model"
    /\ ollama_model = DEFAULT_MODEL
    /\ DEFAULT_MODEL \notin last.pre.listed
    /\ PullCalls = <<PullCall("ghost-model"), PullCall(DEFAULT_MODEL)>>

\* C23: a generate_code call on a generator whose flag is not set runs _init_model
\* again; when the service is up and the configured or the default model is listed
\* or pullable, that call makes its inference call, for a model the service lists
\* (the configured one if available, else the default).
C23_ActivationRetried ==
    (last.op = "generate_code" /\ ~last.pre.flag) =>
        /\ last.initRan
        /\ NProbes > 0
        /\ (/\ svc = "up"
            /\ Available(last.pre.model, last.pre.listed)
                   \/ Available(DEFAULT_MODEL, last.pre.listed))
               => /\ last.initRet
                  /\ Len(InferCalls) = 1
                  /\ InferCalls[1].model \in listed
                  /\ InferCalls[1].model
                         = IF Available(last.pre.model, last.pre.listed)
                           THEN last.pre.model ELSE DEFAULT_MODEL
                  /\ last.exc = last.infExc

C23_Witness ==
    /\ last.op = "generate_code"
    /\ ~last.pre.flag
    /\ ~last.readyBefore
    /\ svc = "up"
    /\ last.pre.model = "ghost-model"
    /\ ~Available("ghost-model", last.pre.listed)
    /\ InferCalls # <<>>
    /\ InferCalls[1].model = DEFAULT_MODEL
    /\ last.exc = "none"

(***************************************************************************)
(* Properties of CodeAssistantApp                                          *)
(***************************************************************************)
Answered == response.status # 0
MissingField ==
    response.json.userInstruction = Absent \/ response.json.userCode = Absent
\* the inference calls of the last request
RequestInferCalls == CallsOf(response.calls, "generate")

\* C11: the history holds exactly the entries of the requests answered with 200, in
\* order and cut to the capacity; a failed request (missing field, connection
\* error, other error) adds none, so its length is min(successful requests, capacity).
C11_HistoryCountsSuccesses ==
    hpc = "ready" =>
        /\ Len(inserted) = nSuccess
        /\ Len(history) = Min(nSuccess, history_max_length)
        /\ history = LastN(inserted, Min(nSuccess, history_max_length))

C11_Witness ==
    /\ hpc = "ready"
    /\ nSuccess > history_max_length
    /\ nRequests > nSuccess
    /\ response.status = 503
    /\ Len(history) = history_max_length

\* C12: a request with an instruction and no code (key absent, or empty string) is
\* not answered as a missing field: generate_code is called and the prompt of its
\* inference call carries the placeholder.
C12_CodeOptional ==
    (/\ Answered
     /\ response.json.userInstruction # Absent
     /\ response.json.userCode \in {Absent, ""})
        => /\ response.status # 400
           /\ response.called
           /\ \A i \in 1..Len(RequestInferCalls) :
                  RequestInferCalls[i].prompt
                      = default_prompt_fn(response.json.userInstruction, NO_CODE)

Drop(s, n) == SubSeq(s, n + 1, Len(s))

\* C14: a store constructed with capacity 0 or a negative capacity is built (the
\* constructor does not fail) with capacity 10: it holds the first 10 entries
\* inserted, and from the 11th insert on it holds the last 10, the oldest evicted.
C14_NonPositiveCapacity ==
    (hpc = "ready" /\ requested <= 0) =>
        /\ history_max_length = 10
        /\ Len(inserted) <= 10 => history = inserted
        /\ Len(inserted) > 10 => history = LastN(inserted, 10)

C14_Witness ==
    /\ hpc = "ready"
    /\ requested < 0
    /\ Len(inserted) = 11
    /\ Len(history) = 10
    /\ history[1] = inserted[2]
    /\ inserted[1] # inserted[2]

\* C15: get_history leaves the store unchanged and returns a list of its own: the
\* list holds what the store held at the call, less what the caller removed from
\* it since, whatever was added to the store later; and the store holds the last
\* entries added, whatever the caller did to the list.
C15_Snapshot ==
    (hpc = "ready" /\ returned_object # "none") =>
        /\ returned = Drop(snapshot, edits)
        /\ history = LastN(inserted, Min(Len(inserted), history_max_length))

C15_Witness ==
    /\ hpc = "ready"
    /\ returned_object = "list"
    /\ edits = 1
    /\ Len(snapshot) = 2
    /\ Len(history) = 3
    /\ history[1] # snapshot[1]
    /\ returned = Tail(snapshot)

(***************************************************************************)
(* Properties of _extract_code                                             *)
(***************************************************************************)
\* a fence delimiter starts at position i of text
FenceAt(text, i) == At(text, CODE_TOKEN, i)
\* a python-tagged opener starts at position i of text
OpenerAt(text, i) == At(text, PYTHON_START_TOKEN, i)
\* text holds two fence delimiters that do not overlap
TwoFences(text) ==
    \E i, j \in 1..Len(text) : FenceAt(text, i) /\ FenceAt(text, j) /\ j >= i + 3
HasOpener(text) == \E i \in 1..Len(text) : OpenerAt(text, i)
\* the least position in S; 0 when S is empty
Least(S) == IF S = {} THEN 0 ELSE CHOOSE i \in S : \A j \in S : i <= j
\* text without one leading line break
LessLineBreak(text) == IF text # <<>> /\ Head(text) = "\n" THEN Tail(text) ELSE text

\* C16: a text with fewer than two fence delimiters is returned unchanged, also when
\* its one delimiter is a python-tagged opener; _extract_code returns a text for
\* every input.
C16_FewerThanTwoFences ==
    xpc = "done" =>
        /\ ext_output_code \in Seq(Chars)
        /\ ~TwoFences(ext_response_text) => ext_output_code = ext_response_text

C16_Witness ==
    /\ xpc = "done"
    /\ HasOpener(ext_response_text)
    /\ ~TwoFences(ext_response_text)
    /\ Len(ext_response_text) > Len(PYTHON_START_TOKEN)
    /\ ext_output_code = ext_response_text

\* the text after the first python-tagged opener of text
AfterOpener(text) ==
    From(text, Least({i \in 1..Len(text) : OpenerAt(text, i)}) + Len(PYTHON_START_TOKEN))
\* the part of rest before its first fence delimiter; all of rest when it has none.
\* A delimiter that runs into a later tagged opener (a fourth or fifth backquote
\* before the opener) is taken where that opener starts.
BeforeFence(rest) ==
    LET c == Least({i \in 1..Len(rest) : FenceAt(rest, i)})
        q == Least({i \in 1..Len(rest) : OpenerAt(rest, i)})
    IN  IF c = 0 THEN rest
        ELSE IF q # 0 /\ q < c + Len(CODE_TOKEN) THEN SubSeq(rest, 1, q - 1)
        ELSE SubSeq(rest, 1, c - 1)
\* the text between the first fence delimiter of text and the next one after it
BetweenFences(text) ==
    LET i == Least({k \in 1..Len(text) : FenceAt(text, k)})
        j == Least({k \in (i + Len(CODE_TOKEN))..Len(text) : FenceAt(text, k)})
    IN  SubSeq(text, i + Len(CODE_TOKEN), j - 1)
\* the fenced text the claim names
FencedText(text) ==
    IF HasOpener(text) THEN BeforeFence(AfterOpener(text)) ELSE BetweenFences(text)
\* an untagged fenced block ends before the first tagged opener
UntaggedBlockFirst(text) ==
    \E i, j \in 1..Len(text) :
        /\ FenceAt(text, i) /\ FenceAt(text, j) /\ j >= i + Len(CODE_TOKEN)
        /\ \A k \in 1..(j + Len(CODE_TOKEN) - 1) : ~OpenerAt(text, k)

SequentialOutcomes(model) ==
    { [model |-> r.model, flag |-> r.flag] :
        r \in { lazy_init(model, FALSE, [svc |-> s, listed |-> ls, pullable |-> ps]) :
                  s \in {"up"} \cup Exceptions, ls \in SUBSET Models,
                  ps \in SUBSET Models } }

\* C19: of two generate_code calls that overlap on a generator that is not ready,
\* at most one makes list or pull calls, and _ollama_model and the flag are left
\* as one _init_model call alone could leave them.
C19_SingleProbe ==
    \A t, u \in Threads :
        (t # u /\ threads[t].overlapped /\ threads[u].overlapped
              /\ threads[t].stage # 0 /\ threads[u].stage # 0)
            => /\ ~(threads[t].probes > 0 /\ threads[u].probes > 0)
               /\ [model |-> ollama_model, flag |-> is_model_initialized]
                      \in SequentialOutcomes(threads[t].model0)
                              \cup SequentialOutcomes(threads[u].model0)

\* the entries of a sequence of add_new_entry calls
EntriesOf(calls) == [i \in 1..Len(calls) |-> calls[i].entry]
\* the store's contents after the calls of a sequence, run one after the other
ContentsAfter(calls) ==
    LastN(EntriesOf(calls), Min(Len(calls), history_max_length))
\* the orders in which the calls of a set can be run
Serializations(S) ==
    { f \in [1..Cardinality(S) -> S] : \A i, j \in 1..Cardinality(S) : f[i] = f[j] => i = j }
\* the get_history calls that have built their result / have returned
GetsWithResult ==
    { t \in HistoryThreads : hthreads[t].op = "get" /\ hthreads[t].pc \in {"applied", "returned"} }
GetsReturned == { t \in HistoryThreads : hthreads[t].op = "get" /\ hthreads[t].pc = "returned" }
\* the store is never longer than its capacity, and holds the calls whose append
\* has run, every returned call among them, less the oldest beyond the capacity
NoAddLost ==
    /\ Len(history) <= history_max_length
    /\ completed \subseteq {applied[i] : i \in 1..Len(applied)}
    /\ history = ContentsAfter(applied)

C24_Idempotent ==
    /\ xpc = "again" => ext_output_again = ext_output_code
    /\ (xpc \in {"done", "again"} /\ TwoFences(ext_response_text))
           => \A i \in 1..Len(ext_output_code) : ~FenceAt(ext_output_code, i)

C24_Witness ==
    /\ xpc = "again"
    /\ TwoFences(ext_response_text)
    /\ HasOpener(ext_response_text)
    /\ ext_output_code # ext_response_text
    /\ ext_output_code # <<>>
    /\ Tick \in {ext_output_code[i] : i \in 1..Len(ext_output_code)}
    /\ ext_output_again = ext_output_code

====
